---- MODULE Spec2Model ----
(***************************************************************************)
(* graphAttack: the transformation operations (FlattenFeaturesOperation,  *)
(* ReshapeFeaturesOperation, SliceOperation) of                            *)
(* graphAttack/operations/transformationOperations.py and the training     *)
(* script controlTrainDense.py.                                            *)
(*                                                                         *)
(* An array is a record [ok, shape, data]: shape is a tuple of dimension   *)
(* lengths and data maps every index tuple (0-based, one entry per axis)   *)
(* to an integer.  A raised exception is the value Raised.                 *)
(***************************************************************************)
EXTENDS Integers, Sequences, FiniteSets, TLC

\* ---------------------------------------------------------------- bounds
MaxRank == 3        \* largest rank of the array fed to a node
MaxDim == 2         \* largest length of one axis
MaxSize == 8        \* largest number of elements of the array fed to a node
MaxConsumers == 2   \* largest number of consumers of the node
MaxIdxLen == 2      \* longest index expression
MaxNodes == 2       \* longest chain of operations fed by the feeder
MaxCalls == 3       \* calls of fprime made by the optimizer
MaxParam == 2       \* distinct parameter vectors
MaxBatch == 2       \* distinct mini-batches

\* ------------------------------------------------------- numpy: shapes
RECURSIVE Prod(_)
Prod(s) == IF s = <<>> THEN 1 ELSE Head(s) * Prod(Tail(s))

RECURSIVE Indices(_)
Indices(s) ==
  IF s = <<>> THEN {<<>>}
  ELSE {<<i>> \o t : i \in 0..(Head(s) - 1), t \in Indices(Tail(s))}

\* offset of index idx in the row-major (C order) layout of shape s
RECURSIVE Ravel(_, _)
Ravel(idx, s) ==
  IF s = <<>> THEN 0
  ELSE Head(idx) * Prod(Tail(s)) + Ravel(Tail(idx), Tail(s))

\* index of offset off in the row-major layout of shape s
RECURSIVE Unravel(_, _)
Unravel(off, s) ==
  IF s = <<>> THEN <<>>
  ELSE <<off \div Prod(Tail(s))>> \o Unravel(off % Prod(Tail(s)), Tail(s))

Raised == [ok |-> FALSE, shape |-> <<>>, data |-> [j \in {} |-> 0]]

Full(s, v) == [ok |-> TRUE, shape |-> s, data |-> [j \in Indices(s) |-> v]]

\* a.reshape(newShape): same row-major order, ValueError when sizes differ
NpReshape(arr, newShape) ==
  IF ~arr.ok \/ Prod(newShape) # Prod(arr.shape) THEN Raised
  ELSE [ok |-> TRUE, shape |-> newShape,
        data |-> [j \in Indices(newShape) |->
                    arr.data[Unravel(Ravel(j, newShape), arr.shape)]]]

\* x += y for arrays of one shape
NpAdd(x, y) ==
  IF ~x.ok \/ ~y.ok \/ x.shape # y.shape THEN Raised
  ELSE [ok |-> TRUE, shape |-> x.shape,
        data |-> [j \in Indices(x.shape) |-> x.data[j] + y.data[j]]]

\* ----------------------------------------- numpy: basic index expressions
\* An index expression is a tuple of items, one per leading axis; an item is
\* an integer or a slice start:stop:step with step >= 1.
IntItem(i) == [isInt |-> TRUE, i |-> i, hasStart |-> FALSE, start |-> 0,
               hasStop |-> FALSE, stop |-> 0, step |-> 1]
SliceItem(hasStart, start, hasStop, stop, step) ==
  [isInt |-> FALSE, i |-> 0, hasStart |-> hasStart, start |-> start,
   hasStop |-> hasStop, stop |-> stop, step |-> step]

Clamp(x, lo, hi) == IF x < lo THEN lo ELSE IF x > hi THEN hi ELSE x
Wrap(x, len) == IF x < 0 THEN x + len ELSE x

SliceStart(it, len) == IF it.hasStart THEN Clamp(Wrap(it.start, len), 0, len) ELSE 0
SliceStop(it, len) == IF it.hasStop THEN Clamp(Wrap(it.stop, len), 0, len) ELSE len
SliceLen(it, len) ==
  LET lo == SliceStart(it, len)
      hi == SliceStop(it, len)
  IN IF hi > lo THEN (hi - lo + it.step - 1) \div it.step ELSE 0

\* IndexError: too many indices, or an integer out of bounds for its axis
IndexOk(s, e) ==
  /\ Len(e) <= Len(s)
  /\ \A k \in 1..Len(e) : e[k].isInt => (e[k].i >= -s[k] /\ e[k].i < s[k])

\* shape of testMat[e] for testMat of shape s
RECURSIVE IndexShape(_, _)
IndexShape(s, e) ==
  IF s = <<>> THEN <<>>
  ELSE IF e = <<>> THEN s
  ELSE IF Head(e).isInt THEN IndexShape(Tail(s), Tail(e))
  ELSE <<SliceLen(Head(e), Head(s))>> \o IndexShape(Tail(s), Tail(e))

\* position in the indexed array that element j of arr[e] is taken from
RECURSIVE IndexSource(_, _, _)
IndexSource(j, s, e) ==
  IF s = <<>> THEN <<>>
  ELSE IF e = <<>> THEN j
  ELSE IF Head(e).isInt
       THEN <<Wrap(Head(e).i, Head(s))>> \o IndexSource(j, Tail(s), Tail(e))
  ELSE <<SliceStart(Head(e), Head(s)) + Head(j) * Head(e).step>>
         \o IndexSource(Tail(j), Tail(s), Tail(e))

\* arr[e]
NpGetItem(arr, e) ==
  IF ~arr.ok \/ ~IndexOk(arr.shape, e) THEN Raised
  ELSE LET os == IndexShape(arr.shape, e)
       IN [ok |-> TRUE, shape |-> os,
           data |-> [j \in Indices(os) |-> arr.data[IndexSource(j, arr.shape, e)]]]

\* arr[e] = val, for val of the shape of arr[e]
NpSetItem(arr, e, val) ==
  IF ~arr.ok \/ ~val.ok \/ ~IndexOk(arr.shape, e) THEN Raised
  ELSE IF val.shape # IndexShape(arr.shape, e) THEN Raised
  ELSE LET src == [j \in Indices(val.shape) |-> IndexSource(j, arr.shape, e)]
           written == {src[j] : j \in DOMAIN src}
       IN [ok |-> TRUE, shape |-> arr.shape,
           data |-> [p \in Indices(arr.shape) |->
                       IF p \in written
                       THEN val.data[CHOOSE j \in DOMAIN src : src[j] = p]
                       ELSE arr.data[p]]]

\* ------------------------------------------------------------ the inputs
RECURSIVE ShapesOfRank(_)
ShapesOfRank(r) ==
  IF r = 0 THEN {<<>>}
  ELSE {<<d>> \o t : d \in 1..MaxDim, t \in ShapesOfRank(r - 1)}

InputShapes == {s \in UNION {ShapesOfRank(r) : r \in 1..MaxRank} : Prod(s) <= MaxSize}
ExampleShapes ==
  {s \in UNION {ShapesOfRank(r) : r \in 1..(MaxRank - 1)} : Prod(s) <= MaxSize}

\* a value that differs at every position of an array (axes <= MaxDim long)
RECURSIVE Code(_)
Code(idx) == IF idx = <<>> THEN 0 ELSE Head(idx) + (MaxDim + 1) * Code(Tail(idx))

\* input arrays: all zeros, or all elements distinct
DataArray(s, distinct) ==
  [ok |-> TRUE, shape |-> s,
   data |-> [j \in Indices(s) |-> IF distinct THEN 1 + Code(j) ELSE 0]]

\* gradient handed back by consumer c: all ones from the first consumer, all
\* elements distinct from the others, no two consumers alike
GradArray(s, c) ==
  [ok |-> TRUE, shape |-> s,
   data |-> [j \in Indices(s) |-> IF c = 1 THEN 1 ELSE c + Code(j)]]

IndexItems ==
  {IntItem(0), IntItem(1), IntItem(-1),
   SliceItem(FALSE, 0, FALSE, 0, 1),      \*  :
   SliceItem(TRUE, 1, FALSE, 0, 1),       \*  1:
   SliceItem(FALSE, 0, FALSE, 0, 2)}      \*  ::2

RECURSIVE IndexExpsOfLen(_)
IndexExpsOfLen(n) ==
  IF n = 0 THEN {<<>>}
  ELSE {<<it>> \o t : it \in IndexItems, t \in IndexExpsOfLen(n - 1)}

IndexExps == UNION {IndexExpsOfLen(n) : n \in 0..MaxIdxLen}

\* ------------------------------------------------------------------ state
VARIABLES
  name,         \* class of the operation under construction, "" before it
  inputAShape,  \* self.inputA.shape
  exampleShape, \* ReshapeFeaturesOperation.exampleShape
  indexExp,     \* SliceOperation.indexExp
  shape,        \* self.shape
  nExamples,    \* self.nExamples
  outputs,      \* self.outputs: the consumers of the operation
  endNode,      \* self.endNode
  a,            \* the value of inputA handed to perform
  result,       \* the value perform returned
  gradA,        \* the value performGradient returned
  visited,      \* consumers whose getGradient was called, in call order
  opc,          \* "new", "built", "failed", "performed", "raised", "graded"
  origin,       \* the array the feeder holds
  chain,        \* the operations built so far, feeder side first
  tpc,          \* position of the training script
  step,         \* graph calls of the current fprime call, in order
  log,          \* graph calls of the whole run, in order
  calls,        \* fprime calls made so far
  graph,        \* data, labels, parameters and caches of mainGraph
  args,         \* arguments (p, data, labels) of the current fprime call
  params,       \* the parameters minimize returned, 0 before it returns
  dumped        \* the pickled graph, <<>> before pickle.dump

opVars == <<name, inputAShape, exampleShape, indexExp, shape, nExamples,
            outputs, endNode, a, result, gradA, visited, opc,
            origin, chain>>
trainVars == <<tpc, step, log, calls, graph, args, params, dumped>>
vars == <<opVars, trainVars>>

NoArray == Raised

\* mainGraph after lines 24-44: the feeder holds X (batch 0), the cost node
\* the labels Y, the layers their initial parameters (0), no cache is filled
NewGraph == [data |-> 0, labels |-> 0, params |-> 0, result |-> <<>>, gradient |-> <<>>]

TrainIdle ==
  /\ tpc = "idle" /\ step = <<>> /\ log = <<>> /\ calls = 0
  /\ graph = NewGraph /\ args = <<0, 0, 0>> /\ params = 0 /\ dumped = <<>>

OpIdle ==
  /\ origin = NoArray /\ a = NoArray /\ inputAShape = <<>>
  /\ name = "" /\ exampleShape = <<>> /\ indexExp = <<>>
  /\ shape = <<>> /\ nExamples = 0
  /\ outputs = {} /\ endNode = TRUE
  /\ result = NoArray /\ gradA = NoArray /\ visited = <<>>
  /\ opc = "idle" /\ chain = <<>>

OpInit ==
  /\ \E s \in InputShapes, d \in BOOLEAN :
       /\ origin = DataArray(s, d)
       /\ a = DataArray(s, d)
       /\ inputAShape = s
  /\ name = "" /\ exampleShape = <<>> /\ indexExp = <<>>
  /\ shape = <<>> /\ nExamples = 0
  /\ outputs = {} /\ endNode = TRUE
  /\ result = NoArray /\ gradA = NoArray /\ visited = <<>>
  /\ opc = "new" /\ chain = <<>>

Init == OpInit /\ TrainIdle

\* out.getGradient(self) of consumer id: an array of the node's output shape
GetGradient(id) == GradArray(shape, id)

\* the orders in which "for out in self.outputs" may visit a set
Orders(S) ==
  {o \in [1..Cardinality(S) -> S] : \A i, j \in DOMAIN o : o[i] = o[j] => i = j}

\* row-major reshape replaced by a column-major one
RavelF(idx, s) ==
  LET RECURSIVE R(_, _)
      R(ix, sh) == IF sh = <<>> THEN 0 ELSE Head(ix) + Head(sh) * R(Tail(ix), Tail(sh))
  IN R(idx, s)

\* ------------------------------------------------- FlattenFeaturesOperation
\* the loop "for index in range(inpShapeSize - 1): numFeatures *= shape[index + 1]"
NumFeaturesShort(inShape, index) ==
  LET RECURSIVE N(_)
      N(ix) == IF ix >= Len(inShape) - 2 THEN 1 ELSE inShape[ix + 2] * N(ix + 1)
  IN N(index)

RECURSIVE NumFeatures(_, _)
NumFeatures(inShape, index) ==
  IF index >= Len(inShape) - 1 THEN 1
  ELSE inShape[index + 2] * NumFeatures(inShape, index + 1)

\* setShape: [ok, shape, nExamples]; inputA.shape[0] of a 0-d input raises
FlattenSetShape(inShape) ==
  IF Len(inShape) >= 2
  THEN [ok |-> TRUE, nExamples |-> inShape[1],
        shape |-> <<inShape[1], NumFeatures(inShape, 0)>>]
  ELSE IF Len(inShape) = 1
  THEN [ok |-> TRUE, nExamples |-> 1, shape |-> <<1, inShape[1]>>]
  ELSE [ok |-> FALSE, nExamples |-> 0, shape |-> <<>>]

FlattenPerform(selfShape, arr) == NpReshape(arr, selfShape)

\* the loop keeps only the gradient of the consumer visited last
FlattenAccumulateLast(grad, order, inShape) ==
  IF order = <<>> THEN grad
  ELSE NpReshape(GetGradient(order[Len(order)]), inShape)

\* the loop "for out in self.outputs: grad += out.getGradient(self).reshape(..)"
\* over the consumers in the order they are visited
RECURSIVE FlattenAccumulate(_, _, _)
FlattenAccumulate(grad, order, inShape) ==
  IF order = <<>> THEN grad
  ELSE FlattenAccumulate(NpAdd(grad, NpReshape(GetGradient(Head(order)), inShape)),
                         Tail(order), inShape)

\* the accumulator takes the output's shape, nothing is reshaped back
FlattenPerformGradientOut(isEnd, inShape, order) ==
  LET RECURSIVE Acc(_, _)
      Acc(g, o) == IF o = <<>> THEN g
                   ELSE Acc(NpAdd(g, GetGradient(Head(o))), Tail(o))
  IN IF isEnd THEN [grad |-> Full(inShape, 1), calls |-> <<>>]
     ELSE [grad |-> Acc(Full(shape, 0), order), calls |-> order]

\* performGradient: the array returned and the getGradient calls made
FlattenPerformGradient(isEnd, inShape, order) ==
  IF isEnd THEN [grad |-> Full(inShape, 1), calls |-> <<>>]
  ELSE [grad |-> FlattenAccumulate(Full(inShape, 0), order, inShape),
        calls |-> order]

\* ------------------------------------------------- ReshapeFeaturesOperation
ReshapeSetShape(inShape, exShape) ==
  IF Len(inShape) >= 2
  THEN [ok |-> TRUE, nExamples |-> inShape[1], shape |-> <<inShape[1]>> \o exShape]
  ELSE [ok |-> TRUE, nExamples |-> 1, shape |-> <<1>> \o exShape]

\* the elements are laid out in column-major order
ReshapePerformF(selfShape, arr) ==
  IF ~arr.ok \/ Prod(selfShape) # Prod(arr.shape) THEN Raised
  ELSE [ok |-> TRUE, shape |-> selfShape,
        data |-> [j \in Indices(selfShape) |->
                    arr.data[Unravel(RavelF(j, selfShape), arr.shape)]]]

ReshapePerform(selfShape, arr) == NpReshape(arr, selfShape)

RECURSIVE ReshapeAccumulate(_, _, _)
ReshapeAccumulate(grad, order, inShape) ==
  IF order = <<>> THEN grad
  ELSE ReshapeAccumulate(NpAdd(grad, NpReshape(GetGradient(Head(order)), inShape)),
                         Tail(order), inShape)

\* the seed takes the output's shape
ReshapePerformGradientOut(isEnd, inShape, order) ==
  IF isEnd THEN [grad |-> Full(shape, 1), calls |-> <<>>]
  ELSE [grad |-> ReshapeAccumulate(Full(inShape, 0), order, inShape),
        calls |-> order]

ReshapePerformGradient(isEnd, inShape, order) ==
  IF isEnd THEN [grad |-> Full(inShape, 1), calls |-> <<>>]
  ELSE [grad |-> ReshapeAccumulate(Full(inShape, 0), order, inShape),
        calls |-> order]

\* ----------------------------------------------------------- SliceOperation
SliceSetShape(inShape, e) ==
  LET res == NpGetItem(Full(inShape, 0), e)
  IN [ok |-> res.ok, nExamples |-> 0, shape |-> res.shape]

SlicePerform(e, arr) == NpGetItem(arr, e)

\* the loop keeps only the gradient of the consumer visited last
SliceAccumulateLast(gradGather, order) ==
  IF order = <<>> THEN gradGather ELSE GetGradient(order[Len(order)])

RECURSIVE SliceAccumulate(_, _)
SliceAccumulate(gradGather, order) ==
  IF order = <<>> THEN gradGather
  ELSE SliceAccumulate(NpAdd(gradGather, GetGradient(Head(order))), Tail(order))

\* the input-shaped array starts from ones instead of zeros
SlicePerformGradientOnes(isEnd, inShape, selfShape, e, order) ==
  IF isEnd THEN [grad |-> Full(inShape, 1), calls |-> <<>>]
  ELSE [grad |-> NpSetItem(Full(inShape, 1), e,
                           SliceAccumulate(Full(selfShape, 0), order)),
        calls |-> order]

SlicePerformGradient(isEnd, inShape, selfShape, e, order) ==
  IF isEnd THEN [grad |-> Full(inShape, 1), calls |-> <<>>]
  ELSE [grad |-> NpSetItem(Full(inShape, 0), e,
                           SliceAccumulate(Full(selfShape, 0), order)),
        calls |-> order]

\* -------------------------------------------------------------- actions
\* Operation.__init__ leaves the node without consumers and calls setShape
Built(cls, ex, e, sh) ==
  /\ name' = cls /\ exampleShape' = ex /\ indexExp' = e
  /\ shape' = sh.shape /\ nExamples' = sh.nExamples
  /\ opc' = IF sh.ok THEN "built" ELSE "failed"
  /\ chain' = Append(chain, [name |-> cls, exampleShape |-> ex])
  /\ outputs' = {} /\ endNode' = TRUE
  /\ UNCHANGED <<inputAShape, a, result, gradA, visited, origin>>
  /\ UNCHANGED trainVars

NewFlatten ==
  /\ opc = "new"
  /\ Built("FlattenFeaturesOperation", <<>>, <<>>, FlattenSetShape(inputAShape))

NewReshape ==
  /\ opc = "new"
  /\ \E ex \in ExampleShapes :
       Built("ReshapeFeaturesOperation", ex, <<>>, ReshapeSetShape(inputAShape, ex))

NewSlice ==
  /\ opc = "new"
  /\ \E e \in IndexExps :
       Built("SliceOperation", <<>>, e, SliceSetShape(inputAShape, e))

\* a consumer takes the node as its input: it joins outputs, endNode falls
AddOutput ==
  /\ opc = "built"
  /\ Cardinality(outputs) < MaxConsumers
  /\ outputs' = outputs \cup {Cardinality(outputs) + 1}
  /\ endNode' = FALSE
  /\ UNCHANGED <<name, inputAShape, exampleShape, indexExp, shape, nExamples,
                 a, result, gradA, visited, opc, origin, chain>>
  /\ UNCHANGED trainVars

PerformOf(cls, arr) ==
  IF cls = "FlattenFeaturesOperation" THEN FlattenPerform(shape, arr)
  ELSE IF cls = "ReshapeFeaturesOperation" THEN ReshapePerform(shape, arr)
  ELSE SlicePerform(indexExp, arr)

Perform ==
  /\ opc = "built"
  /\ result' = PerformOf(name, a)
  /\ opc' = IF result'.ok THEN "performed" ELSE "raised"
  /\ UNCHANGED <<name, inputAShape, exampleShape, indexExp, shape, nExamples,
                 outputs, endNode, a, gradA, visited, origin, chain>>
  /\ UNCHANGED trainVars

PerformGradientOf(cls, order) ==
  IF cls = "FlattenFeaturesOperation"
  THEN FlattenPerformGradient(endNode, inputAShape, order)
  ELSE IF cls = "ReshapeFeaturesOperation"
  THEN ReshapePerformGradient(endNode, inputAShape, order)
  ELSE SlicePerformGradient(endNode, inputAShape, shape, indexExp, order)

PerformGradient ==
  /\ opc = "performed"
  /\ \E o \in Orders(outputs) :
       \E res \in {PerformGradientOf(name, o)} :
          /\ gradA' = res.grad
          /\ visited' = res.calls
  /\ opc' = "graded"
  /\ UNCHANGED <<name, inputAShape, exampleShape, indexExp, shape, nExamples,
                 outputs, endNode, a, result, origin, chain>>
  /\ UNCHANGED trainVars

\* the next operation of the graph takes this node's result as its input
Feed ==
  /\ opc = "performed"
  /\ Len(chain) < MaxNodes
  /\ a' = result /\ inputAShape' = shape
  /\ name' = "" /\ exampleShape' = <<>> /\ indexExp' = <<>>
  /\ shape' = <<>> /\ nExamples' = 0
  /\ outputs' = {} /\ endNode' = TRUE
  /\ result' = NoArray /\ gradA' = NoArray /\ visited' = <<>>
  /\ opc' = "new"
  /\ UNCHANGED <<origin, chain>>
  /\ UNCHANGED trainVars

\* one operation on the feeder: construction, consumers, forward, backward
OpNext ==
  \/ NewFlatten \/ NewReshape \/ NewSlice
  \/ AddOutput \/ Perform \/ PerformGradient

Spec == Init /\ [][OpNext]_vars

\* a pipeline of reshaping operations, forward pass only
ChainNext == NewFlatten \/ NewReshape \/ Perform \/ Feed

SpecChain == Init /\ [][ChainNext]_vars

\* ------------------------------------------ controlTrainDense.py: the graph
\* the calls fprime and the script make on mainGraph
AssignData(g, data) == [g EXCEPT !.data = data]
AssignLabels(g, labels) == [g EXCEPT !.labels = labels]
AttachParameters(g, p) == [g EXCEPT !.params = p]
ResetAll(g) == [g EXCEPT !.result = <<>>, !.gradient = <<>>]
\* a node whose result is cached is not computed again
FeedForward(g) ==
  [g EXCEPT !.result = IF g.result = <<>> THEN <<g.data, g.labels, g.params>>
                       ELSE g.result]
FeedBackward(g) ==
  [g EXCEPT !.gradient = IF g.gradient = <<>> THEN g.result ELSE g.gradient]

Called(op, g, next) ==
  /\ graph' = g
  /\ step' = Append(step, op)
  /\ log' = Append(log, op)
  /\ tpc' = next
  /\ UNCHANGED <<calls, args, params, dumped>>
  /\ UNCHANGED opVars

\* adamGrad.minimize calls function(p, data, labels) on one mini-batch
CallFprime ==
  /\ tpc = "minimize"
  /\ calls < MaxCalls
  /\ \E p \in 1..MaxParam, b \in 1..MaxBatch : args' = <<p, b, b>>
  /\ calls' = calls + 1
  /\ step' = <<>>
  /\ tpc' = "l48"
  /\ UNCHANGED <<log, graph, params, dumped>>
  /\ UNCHANGED opVars

\* line 49 left out: the caches of the previous call stay
Fprime49Skipped ==
  /\ tpc = "l49" /\ tpc' = "l50"
  /\ UNCHANGED <<step, log, calls, graph, args, params, dumped>>
  /\ UNCHANGED opVars

\* lines 52 and 53 exchanged: the backward pass runs first
Fprime52Backward == tpc = "l52" /\ Called("feedBackward", FeedBackward(graph), "l53")

Fprime48 == tpc = "l48" /\ Called("assignData", AssignData(graph, args[2]), "l49")
Fprime49 == tpc = "l49" /\ Called("resetAll", ResetAll(graph), "l50")
Fprime50 == tpc = "l50" /\ Called("assignLabels", AssignLabels(graph, args[3]), "l51")
Fprime51 == tpc = "l51" /\ Called("attachParameters", AttachParameters(graph, args[1]), "l52")
Fprime52 == tpc = "l52" /\ Called("feedForward", FeedForward(graph), "l53")
Fprime53 == tpc = "l53" /\ Called("feedBackward", FeedBackward(graph), "l54")
Fprime54 == tpc = "l54" /\ Called("unrollGradients", graph, "minimize")

\* minimize returns the trained parameters
Minimized ==
  /\ tpc = "minimize"
  /\ calls >= 1
  /\ \E p \in 1..MaxParam : params' = p
  /\ tpc' = "l73"
  /\ UNCHANGED <<step, log, calls, graph, args, dumped>>
  /\ UNCHANGED opVars

Persist(op, g, d, next) ==
  /\ graph' = g
  /\ dumped' = d
  /\ log' = Append(log, op)
  /\ tpc' = next
  /\ UNCHANGED <<step, calls, args, params>>
  /\ UNCHANGED opVars

Script73 == tpc = "l73" /\ Persist("attachParameters", AttachParameters(graph, params), dumped, "l77")
Script77 == tpc = "l77" /\ Persist("resetAll", ResetAll(graph), dumped, "l78")
Script78 == tpc = "l78" /\ Persist("dump", graph, <<graph>>, "l80")
Script80 == tpc = "l80" /\ Persist("load", dumped[1], dumped, "done")

TrainInit ==
  /\ tpc = "minimize" /\ step = <<>> /\ log = <<>> /\ calls = 0
  /\ graph = NewGraph /\ args = <<0, 0, 0>> /\ params = 0 /\ dumped = <<>>

InitTrain == OpIdle /\ TrainInit

TrainNext ==
  \/ CallFprime
  \/ Fprime48 \/ Fprime49 \/ Fprime50 \/ Fprime51 \/ Fprime52 \/ Fprime53 \/ Fprime54
  \/ Minimized
  \/ Script73 \/ Script77 \/ Script78 \/ Script80

SpecTrain == InitTrain /\ [][TrainNext]_vars

\* ------------------------------------------------------------ properties
Flatten == "FlattenFeaturesOperation"
Reshape == "ReshapeFeaturesOperation"
Slice == "SliceOperation"

\* sum over the consumers in S of element j of the gradient each hands back
RECURSIVE SumAt(_, _)
SumAt(S, j) ==
  IF S = {} THEN 0
  ELSE LET c == CHOOSE x \in S : TRUE
       IN GetGradient(c).data[j] + SumAt(S \ {c}, j)

\* position p of an array of shape s is one that index expression e selects
Selected(p, s, e) ==
  \A k \in 1..Len(e) :
    IF e[k].isInt THEN p[k] = Wrap(e[k].i, s[k])
    ELSE /\ p[k] >= SliceStart(e[k], s[k])
         /\ p[k] < SliceStop(e[k], s[k])
         /\ (p[k] - SliceStart(e[k], s[k])) % e[k].step = 0

\* where a selected position p lands in the sliced output
RECURSIVE OutPos(_, _, _)
OutPos(p, s, e) ==
  IF s = <<>> THEN <<>>
  ELSE IF e = <<>> THEN p
  ELSE IF Head(e).isInt THEN OutPos(Tail(p), Tail(s), Tail(e))
  ELSE <<(Head(p) - SliceStart(Head(e), Head(s))) \div Head(e).step>>
         \o OutPos(Tail(p), Tail(s), Tail(e))

Graded == opc = "graded"

\* C1: a node with k >= 1 consumers returns, at every position, the sum of
\* the k consumers' gradients (reshaped to the input for Flatten and Reshape,
\* at the selected positions for Slice), each consumer asked exactly once,
\* whatever the order of the visit.
C1_FanOutSum ==
  (Graded /\ ~endNode) =>
    /\ outputs # {}
    /\ Len(visited) = Cardinality(outputs)
    /\ {visited[i] : i \in DOMAIN visited} = outputs
    /\ gradA.ok
    /\ IF name = Slice
       THEN \A j \in Indices(shape) :
              gradA.data[IndexSource(j, inputAShape, indexExp)] = SumAt(outputs, j)
       ELSE \A p \in Indices(inputAShape) :
              gradA.data[p] = SumAt(outputs, Unravel(Ravel(p, inputAShape), shape))

C1_Witness ==
  /\ Graded /\ name = Flatten /\ Len(inputAShape) = 3
  /\ outputs = {1, 2}

\* C2: a Slice with consumers returns an input-shaped array holding the
\* summed consumer gradient at the selected positions and 0 elsewhere; with
\* [0, :] on a 2x2 input and a gradient of ones it returns [[1,1],[0,0]].
C2_SliceAdjoint ==
  (Graded /\ name = Slice /\ ~endNode) =>
    /\ gradA.ok
    /\ gradA.shape = inputAShape
    /\ DOMAIN gradA.data = Indices(inputAShape)
    /\ \A p \in Indices(inputAShape) :
         gradA.data[p] = IF Selected(p, inputAShape, indexExp)
                         THEN SumAt(outputs, OutPos(p, inputAShape, indexExp))
                         ELSE 0
    /\ (/\ inputAShape = <<2, 2>>
        /\ indexExp = <<IntItem(0), SliceItem(FALSE, 0, FALSE, 0, 1)>>
        /\ outputs = {1})
       => gradA.data = [p \in Indices(<<2, 2>>) |-> IF p[1] = 0 THEN 1 ELSE 0]

C2_Witness ==
  /\ Graded /\ name = Slice /\ ~endNode
  /\ inputAShape = <<2, 2>> /\ origin = DataArray(<<2, 2>>, FALSE)
  /\ indexExp = <<IntItem(0), SliceItem(FALSE, 0, FALSE, 0, 1)>>
  /\ outputs = {1}
  /\ gradA.data[<<0, 0>>] = 1 /\ gradA.data[<<0, 1>>] = 1
  /\ gradA.data[<<1, 0>>] = 0 /\ gradA.data[<<1, 1>>] = 0

Unselected == {p \in Indices(inputAShape) : ~Selected(p, inputAShape, indexExp)}

\* C5 as claimed: after every backward pass of a Slice, with or without
\* consumers, every position the index expression does not select is 0.
C5_UnselectedZeroAlways ==
  (Graded /\ name = Slice) => \A p \in Unselected : gradA.data[p] = 0

\* C5: after the backward pass of a Slice that has at least one consumer,
\* every position the index expression does not select has gradient 0; a
\* Slice without consumers returns 1 at every position, selected or not.
C5_UnselectedZero ==
  (Graded /\ name = Slice) =>
    IF outputs # {} THEN \A p \in Unselected : gradA.data[p] = 0
    ELSE \A p \in Indices(inputAShape) : gradA.data[p] = 1

C5_Witness ==
  /\ Graded /\ name = Slice /\ Cardinality(outputs) = 2
  /\ Unselected # {} /\ Unselected # Indices(inputAShape)

\* C6: an endNode returns ones of the input's shape and asks no consumer.
C6_SeedGradient ==
  (Graded /\ endNode) =>
    /\ gradA.ok
    /\ gradA.shape = inputAShape
    /\ DOMAIN gradA.data = Indices(inputAShape)
    /\ \A p \in Indices(inputAShape) : gradA.data[p] = 1
    /\ visited = <<>>

C6_Witness ==
  /\ Graded /\ endNode /\ name = Reshape /\ shape # inputAShape
  /\ Len(inputAShape) = 3

\* C7 as claimed: construction rejects every node whose shape cannot be
\* satisfied, so perform of a constructed node never fails on an input of
\* the declared input shape.
C7_ConstructionValidates ==
  (opc = "built") => PerformOf(name, DataArray(inputAShape, FALSE)).ok

\* C8: Flatten's shape is (n, d1*...*dk) for an input (n, d1, ..., dk),
\* (1, m) for an input (m,); it is a function of the input shape alone and
\* keeps the element count.
C8_FlattenShape ==
  (name = Flatten /\ opc # "new") =>
    /\ opc # "failed"
    /\ Len(inputAShape) >= 2 => shape = <<inputAShape[1], Prod(Tail(inputAShape))>>
    /\ Len(inputAShape) = 1 => shape = <<1, inputAShape[1]>>
    /\ nExamples = shape[1]
    /\ Prod(shape) = Prod(inputAShape)

C8_Witness ==
  /\ name = Flatten /\ opc = "built" /\ inputAShape = <<2, 2, 2>>
  /\ shape = <<2, 4>> /\ a = DataArray(<<2, 2, 2>>, TRUE)

\* C10: the array performGradient returns has the shape of the node's input,
\* in the endNode branch and in the accumulation branch.
C10_GradientShape ==
  Graded =>
    /\ gradA.ok
    /\ gradA.shape = inputAShape
    /\ DOMAIN gradA.data = Indices(inputAShape)

C10_Witness ==
  /\ Graded /\ ~endNode /\ name = Flatten
  /\ shape # inputAShape /\ gradA.shape = inputAShape

\* C4: Flatten followed by Reshape with exampleShape = (d1, ..., dk) gives
\* back the array that was fed, element for element.
C4_RoundTrip ==
  (/\ Len(chain) = 2
   /\ chain[1].name = Flatten /\ chain[2].name = Reshape
   /\ Len(origin.shape) >= 2
   /\ chain[2].exampleShape = Tail(origin.shape)
   /\ opc \in {"performed", "raised"}) =>
    /\ result.ok
    /\ result.shape = origin.shape
    /\ DOMAIN result.data = Indices(origin.shape)
    /\ \A p \in Indices(origin.shape) : result.data[p] = origin.data[p]

C4_Witness ==
  /\ Len(chain) = 2 /\ chain[1].name = Flatten /\ chain[2].name = Reshape
  /\ origin = DataArray(<<2, 2, 2>>, TRUE)
  /\ chain[2].exampleShape = <<2, 2>>
  /\ opc = "performed" /\ a.shape = <<2, 4>> /\ result = origin

\* place of a graph call in the claimed protocol
\* reset -> assignData/assignLabels -> attachParameters -> feedForward ->
\* feedBackward -> unrollGradients
ClaimedRank(op) ==
  CASE op = "resetAll" -> 1
    [] op \in {"assignData", "assignLabels"} -> 2
    [] op = "attachParameters" -> 3
    [] op = "feedForward" -> 4
    [] op = "feedBackward" -> 5
    [] OTHER -> 6

IsPrefix(x, y) == Len(x) <= Len(y) /\ \A i \in DOMAIN x : x[i] = y[i]

Before(x, op1, op2) ==
  \A j \in DOMAIN x : x[j] = op2 => \E i \in 1..(j - 1) : x[i] = op1

InFprime == tpc \in {"l48", "l49", "l50", "l51", "l52", "l53", "l54"}

C9_NoStaleCache ==
  /\ \A i, j \in DOMAIN log :
       (i < j /\ log[i] = "feedForward" /\ log[j] = "feedForward")
         => \E k \in (i + 1)..(j - 1) : log[k] = "resetAll"
  /\ tpc = "l52" => (graph.result = <<>> /\ graph.gradient = <<>>)
  /\ tpc = "l53" => graph.result = <<args[2], args[3], args[1]>>
  /\ \A d \in DOMAIN log :
       log[d] = "dump" =>
         /\ \E r \in 1..(d - 1) :
              /\ log[r] = "resetAll"
              /\ \A k \in r..d : log[k] \notin {"feedForward", "feedBackward"}
              /\ \E t \in 1..(r - 1) :
                   /\ log[t] = "attachParameters"
                   /\ \A k \in t..d : log[k] \notin {"feedForward", "feedBackward"}
         /\ dumped # <<>>
         /\ dumped[1].params = params
         /\ dumped[1].result = <<>>
         /\ dumped[1].gradient = <<>>

C9_Witness ==
  /\ tpc = "done" /\ calls = 2
  /\ Cardinality({i \in DOMAIN log : log[i] = "feedForward"}) = 2
  /\ dumped # <<>> /\ dumped[1].params = params /\ dumped[1].params # args[1]
  /\ graph = dumped[1]
====
